---- MODULE Spec2Model ----
(***************************************************************************)
(* A model of crates/macro/src/logic.rs of gfaas: the attribute macro      *)
(* that turns a byte-slice function into an async dispatcher (local        *)
(* sandbox or Golem network) and writes the function into a stand-alone    *)
(* Wasm kernel program.                                                    *)
(*                                                                         *)
(* Five specifications share the module:                                   *)
(*   SpecValidate     validate_extract_args / validate_arg_type on a type  *)
(*   SpecTransform    remote_fn_impl, the macro expansion itself           *)
(*   SpecKernel       a run of the emitted kernel's main()                 *)
(*   SpecDistributed  a call of the emitted network dispatcher             *)
(*   SpecLocal        concurrent calls of emitted sandbox dispatchers      *)
(* Strings whose characters the code inspects (to_lowercase, parse) are    *)
(* sequences of code points.                                               *)
(***************************************************************************)
EXTENDS Integers, Sequences, FiniteSets, TLC

\* ------------------------------------------------------------------ bounds
MaxNest == 2
MaxAttrs == 2
MaxArgs == 2
MaxParams == 3
MaxArgv == 4
MaxSubtasks == 2
MaxStreams == 3
MaxCalls == 2

\* --------------------------------------------------------------- constants
U16Max == 65535
DefaultRpcPort == 61000

\* ----------------------------------------------------------------- strings
S_testnet == <<116, 101, 115, 116, 110, 101, 116>>
S_mainnet == <<109, 97, 105, 110, 110, 101, 116>>
S_Mainnet == <<77, 97, 105, 110, 110, 101, 116>>
S_TESTNET == <<84, 69, 83, 84, 78, 69, 84>>
S_stagenet == <<115, 116, 97, 103, 101, 110, 101, 116>>
S_8080 == <<56, 48, 56, 48>>
S_plus80 == <<43, 56, 48>>
S_65536 == <<54, 53, 53, 51, 54>>
S_80a == <<56, 48, 97>>
S_dirA == <<47, 97>>
S_dirB == <<47, 98>>
S_hostA == <<104, 49>>
S_hostB == <<104, 50>>
S_localhost == <<49, 50, 55, 46, 48, 46, 48, 46, 49>>
S_appdir == <<47, 103, 111, 108, 101, 109>>
S_default == <<100, 101, 102, 97, 117, 108, 116>>
S_sep == <<47>>
S_empty == <<>>

None == [some |-> FALSE]
Some(v) == [some |-> TRUE, val |-> v]

\* char::to_lowercase on the ASCII range
LowerChar(c) == IF c >= 65 /\ c <= 90 THEN c + 32 ELSE c

to_lowercase(s) == [i \in 1..Len(s) |-> LowerChar(s[i])]

IsDigit(c) == c >= 48 /\ c <= 57

RECURSIVE DigitsValue(_, _)
\* the checked accumulation of <u16 as FromStr>: None on overflow
DigitsValue(s, acc) ==
    IF Len(s) = 0 THEN Some(acc)
    ELSE IF ~IsDigit(Head(s)) THEN None
    ELSE LET next == acc * 10 + (Head(s) - 48)
         IN  IF next > U16Max THEN None ELSE DigitsValue(Tail(s), next)

\* str::parse::<u16>(): an optional '+', then at least one digit, no overflow
ParseU16(s) ==
    IF Len(s) = 0 THEN None
    ELSE IF Head(s) = 43
         THEN (IF Len(s) = 1 THEN None ELSE DigitsValue(Tail(s), 0))
         ELSE DigitsValue(s, 0)

\* a parse that wraps instead of failing on overflow
Base10ParseWrapping(n) == Some(n % (U16Max + 1))

\* LitInt::base10_parse::<u16>() of a literal whose digits denote n
Base10ParseU16(n) == IF n <= U16Max THEN Some(n) ELSE None

\* ------------------------------------------------------------------- types
\* A syn::Type is a sequence of nodes, outermost first: wrappers with one
\* element type each, then a leaf.
WrapKinds == {"Array", "Slice", "Reference", "Ptr", "Paren", "Tuple"}

Seg(id, hasArgs) == [ident |-> id, arguments |-> hasArgs]

PathNode(colon, segs) == [kind |-> "Path", leading_colon |-> colon, segments |-> segs]

WrapNode(k) == [kind |-> k, leading_colon |-> FALSE, segments |-> <<>>]

NeverNode == [kind |-> "Never", leading_colon |-> FALSE, segments |-> <<>>]

P_u8 == PathNode(FALSE, <<Seg("u8", FALSE)>>)

LeafPool ==
    { P_u8,
      PathNode(FALSE, <<Seg("u32", FALSE)>>),
      PathNode(FALSE, <<Seg("f32", FALSE)>>),
      PathNode(FALSE, <<Seg("Foo", FALSE)>>),
      PathNode(FALSE, <<Seg("std", FALSE), Seg("u8", FALSE)>>),
      PathNode(TRUE, <<Seg("u8", FALSE)>>),
      PathNode(FALSE, <<Seg("u8", TRUE)>>),
      PathNode(FALSE, <<Seg("Vec", TRUE)>>),
      NeverNode }

SeqsUpTo(S, n) == UNION {[1..k -> S] : k \in 0..n}

Types == {[i \in 1..(Len(w) + 1) |-> IF i <= Len(w) THEN WrapNode(w[i]) ELSE l] :
            w \in SeqsUpTo(WrapKinds, MaxNest), l \in LeafPool}

\* syn::Path::get_ident
get_ident(path) ==
    IF ~path.leading_colon /\ Len(path.segments) = 1 /\ ~path.segments[1].arguments
    THEN Some(path.segments[1].ident)
    ELSE None

RECURSIVE validate_arg_type_no_ref(_)
validate_arg_type_no_ref(ty) ==
    LET node == Head(ty)
    IN  CASE node.kind \in {"Array", "Slice"} -> validate_arg_type_no_ref(Tail(ty))
          [] node.kind = "Path" ->
                (LET id == get_ident(node) IN id.some /\ id.val = "u8")
          [] OTHER -> FALSE

RECURSIVE validate_arg_type(_)
validate_arg_type(ty) ==
    LET node == Head(ty)
    IN  CASE node.kind \in {"Array", "Slice", "Reference"} -> validate_arg_type(Tail(ty))
          [] node.kind = "Path" ->
                (LET id == get_ident(node) IN id.some /\ id.val = "u8")
          [] OTHER -> FALSE

\* ------------------------------------------------------------------ FnArg
Typed(pat, nattrs, ty) == [kind |-> "Typed", pat |-> pat, attrs |-> nattrs, ty |-> ty]

Receiver == [kind |-> "Receiver", pat |-> "self", attrs |-> 0, ty |-> <<NeverNode>>]

Ok(args) == [ok |-> TRUE, args |-> args, msg |-> ""]

Panic(msg) == [ok |-> FALSE, args |-> <<>>, msg |-> msg]

RECURSIVE validate_extract_args_from(_, _)
validate_extract_args_from(input, args) ==
    IF Len(input) = 0 THEN Ok(args)
    ELSE LET arg == Head(input)
         IN  IF arg.kind # "Typed" THEN Panic("self params are unsupported")
             ELSE IF arg.attrs > 0 THEN Panic("attributes around fn args are unsupported")
             ELSE IF ~validate_arg_type(arg.ty) THEN Panic("unsupported argument type")
             ELSE validate_extract_args_from(Tail(input),
                                             Append(args, [pat |-> arg.pat, ty |-> arg.ty]))

validate_extract_args(input) == validate_extract_args_from(input, <<>>)

\* -------------------------------------------------------------- attributes
Lit(kind, str, int) == [kind |-> kind, str |-> str, int |-> int]

LitStr(s) == Lit("Str", s, 0)

LitInt(n) == Lit("Int", S_empty, n)

LitBool == Lit("Bool", S_empty, 0)

Attr(key, lit) == [ident |-> key, value |-> lit]

AttrPool ==
    { Attr("datadir", LitStr(S_dirA)), Attr("datadir", LitStr(S_dirB)),
      Attr("datadir", LitInt(1)),
      Attr("rpc_address", LitStr(S_hostA)), Attr("rpc_address", LitStr(S_hostB)),
      Attr("rpc_address", LitBool),
      Attr("rpc_port", LitStr(S_8080)), Attr("rpc_port", LitStr(S_plus80)),
      Attr("rpc_port", LitInt(U16Max)), Attr("rpc_port", LitInt(U16Max + 1)),
      Attr("rpc_port", LitStr(S_65536)), Attr("rpc_port", LitStr(S_80a)),
      Attr("rpc_port", LitBool),
      Attr("net", LitStr(S_TESTNET)), Attr("net", LitStr(S_Mainnet)),
      Attr("net", LitStr(S_stagenet)), Attr("net", LitInt(1)),
      Attr("timeout", LitStr(S_8080)) }

\* GwasmParams::default()
DefaultParams == [datadir |-> None, rpc_address |-> None, rpc_port |-> None, net |-> None]

ParamsOk(p) == [ok |-> TRUE, params |-> p]

ParamsPanic == [ok |-> FALSE, params |-> DefaultParams]

\* an assignment that keeps an earlier value (Option::get_or_insert)
replace_keep_first(p, field, v) ==
    IF p[field].some THEN ParamsOk(p) ELSE ParamsOk([p EXCEPT ![field] = Some(v)])

\* Option::replace
replace(p, field, v) == ParamsOk([p EXCEPT ![field] = Some(v)])

\* one iteration of the loop over the attributes
parse_attr(p, attr) ==
    LET lit == attr.value
    IN  CASE attr.ident = "datadir" ->
                (IF lit.kind = "Str" THEN replace(p, "datadir", lit.str) ELSE ParamsPanic)
          [] attr.ident = "rpc_address" ->
                (IF lit.kind = "Str" THEN replace(p, "rpc_address", lit.str) ELSE ParamsPanic)
          [] attr.ident = "rpc_port" ->
                (CASE lit.kind = "Str" ->
                        (LET v == ParseU16(lit.str)
                         IN  IF v.some THEN replace(p, "rpc_port", v.val) ELSE ParamsPanic)
                   [] lit.kind = "Int" ->
                        (LET v == Base10ParseU16(lit.int)
                         IN  IF v.some THEN replace(p, "rpc_port", v.val) ELSE ParamsPanic)
                   [] OTHER -> ParamsPanic)
          [] attr.ident = "net" ->
                (IF lit.kind = "Str"
                 THEN (LET low == to_lowercase(lit.str)
                       IN  CASE low = S_testnet -> replace(p, "net", S_testnet)
                             [] low = S_mainnet -> replace(p, "net", S_mainnet)
                             [] OTHER -> ParamsPanic)
                 ELSE ParamsPanic)
          [] OTHER -> ParamsPanic

\* ------------------------------------------------------ function parameters
ParamNames == <<"a", "b", "c", "d", "e">>

T_ref_slice_u8 == <<WrapNode("Reference"), WrapNode("Slice"), P_u8>>

T_ref_slice_u32 == <<WrapNode("Reference"), WrapNode("Slice"),
                     PathNode(FALSE, <<Seg("u32", FALSE)>>)>>

ArgShapes == {"bytes", "words", "attributed", "self"}

ArgOf(shape, pat) ==
    CASE shape = "bytes" -> Typed(pat, 0, T_ref_slice_u8)
      [] shape = "words" -> Typed(pat, 0, T_ref_slice_u32)
      [] shape = "attributed" -> Typed(pat, 1, T_ref_slice_u8)
      [] OTHER -> Receiver

FnArgLists == {[i \in 1..Len(sh) |-> ArgOf(sh[i], ParamNames[i])] :
                 sh \in SeqsUpTo(ArgShapes, MaxArgs)}

\* ----------------------------------------------------------- generated code
\* line 172: the patterns of the validated arguments
args_pats_of(args) == [i \in 1..Len(args) |-> args[i].pat]

\* lines 171-176: one .push_subtask_data(Vec::from(#pat)) per pattern
subtasks_reversed(pats) == [i \in 1..Len(pats) |-> pats[Len(pats) + 1 - i]]

subtasks_of(pats) == [i \in 1..Len(pats) |-> pats[i]]

\* line 191
input_data_last(pats) == pats[Len(pats)]

input_data_of(pats) == pats[1]

\* std::env::var: Ok only for a variable that is present and valid Unicode
EnvStates == {"NotPresent", "NotUnicode", "Empty", "Value"}

env_var(e) == e \in {"Empty", "Value"}

\* line 192: if let Ok(_) = local_testing
is_local(e) == env_var(e)

LocalBody(pats, input) ==
    [strategy |-> "local", fn_args |-> pats, input_data |-> input]

DistributedBody(pats, subs, cfg) ==
    [strategy |-> "distributed", fn_args |-> pats, subtasks |-> subs, config |-> cfg]

NoOutput == [strategy |-> "none"]

\* lines 287-299: block i pops one argument and reads it into in{i};
\* the call passes &in0, &in1, ... in that order
kernel_of(n) ==
    [inputs |-> [i \in 1..n |-> i - 1], input_args |-> [i \in 1..n |-> i - 1]]

Untouched == [state |-> "untouched"]

Truncated == [state |-> "truncated"]

Written(c) == [state |-> "written", contents |-> c]

\* --------------------------------------------------------------- variables
VARIABLES
    vArg, vRes,
    tpc, attrsSeen, params, fnArgs, args, subtasks, config, envOut, envLocal,
    input_data, output, kernelFile, returned, panicAt,
    kpc, kProgram, kArgs, kPopped, kOut, kBufs, kCall, kFiles,
    dpc, dFn, dCall, dTask, dComputed, dSub, dStr, dOut, dRet,
    lCalls, lEngine, lInits

vvars == <<vArg, vRes>>

kvars == <<kpc, kProgram, kArgs, kPopped, kOut, kBufs, kCall, kFiles>>

dvars == <<dpc, dFn, dCall, dTask, dComputed, dSub, dStr, dOut, dRet>>

lvars == <<lCalls, lEngine, lInits>>

tvars == <<tpc, attrsSeen, params, fnArgs, args, subtasks, config, envOut, envLocal,
           input_data, output, kernelFile, returned, panicAt>>

vars == <<vvars, tvars, kvars, dvars, lvars>>

notV == <<tvars, kvars, dvars, lvars>>

notT == <<vvars, kvars, dvars, lvars>>

notK == <<vvars, tvars, dvars, lvars>>

notD == <<vvars, tvars, kvars, lvars>>

notL == <<vvars, tvars, kvars, dvars>>

\* ------------------------------------------------------------ SpecValidate
VInit ==
    /\ vArg \in {Typed("a", 0, ty) : ty \in Types}
    /\ vRes = [done |-> FALSE, ok |-> FALSE]

VIdle == vArg = Typed("a", 0, <<P_u8>>) /\ vRes = [done |-> FALSE, ok |-> FALSE]

\* validate_extract_args on a one-parameter list
Validate ==
    /\ ~vRes.done
    /\ vRes' = [done |-> TRUE, ok |-> validate_extract_args(<<vArg>>).ok]
    /\ UNCHANGED vArg
    /\ UNCHANGED notV

\* ----------------------------------------------------------- SpecTransform
TInit ==
    /\ tpc = "attrs"
    /\ attrsSeen = <<>>
    /\ params = DefaultParams
    /\ fnArgs = <<>>
    /\ args = <<>>
    /\ subtasks = <<>>
    /\ config = None
    /\ envOut = "NotPresent"
    /\ envLocal = "NotPresent"
    /\ input_data = None
    /\ output = NoOutput
    /\ kernelFile = Untouched
    /\ returned = NoOutput
    /\ panicAt = "none"

TPanic(where) ==
    /\ tpc' = "panic"
    /\ panicAt' = where

\* lines 117-158: the next attribute of the list
ParseAttr ==
    /\ tpc = "attrs"
    /\ Len(attrsSeen) < MaxAttrs
    /\ \E attr \in AttrPool :
         LET r == parse_attr(params, attr)
         IN  /\ attrsSeen' = Append(attrsSeen, attr)
             /\ IF r.ok
                THEN /\ params' = r.params
                     /\ UNCHANGED <<tpc, panicAt>>
                ELSE /\ TPanic("attrs")
                     /\ UNCHANGED params
    /\ UNCHANGED <<fnArgs, args, subtasks, config, envOut, envLocal, input_data,
                   output, kernelFile, returned>>
    /\ UNCHANGED notT

\* lines 159-162: the attribute list is exhausted; the function's parameters
ValidateArgs ==
    /\ tpc = "attrs"
    /\ \E f \in FnArgLists :
         LET r == validate_extract_args(f)
         IN  /\ fnArgs' = f
             /\ IF r.ok
                THEN /\ args' = r.args
                     /\ tpc' = "resolve"
                     /\ UNCHANGED panicAt
                ELSE /\ TPanic("validate")
                     /\ UNCHANGED args
    /\ UNCHANGED <<attrsSeen, params, subtasks, config, envOut, envLocal, input_data,
                   output, kernelFile, returned>>
    /\ UNCHANGED notT

\* PathBuf::join("default")
join_default(dir) == dir \o S_sep \o S_default

unwrap_or(opt, dflt) == IF opt.some THEN opt.val ELSE dflt

\* lines 171-187: the subtask pushes and the configuration with its defaults;
\* appdirs::user_data_dir is asked only when no datadir was given, and may fail
ResolveDefaults ==
    /\ tpc = "resolve"
    /\ subtasks' = subtasks_of(args_pats_of(args))
    /\ \E appdir \in {None, Some(S_appdir)} :
         /\ params.datadir.some => appdir.some
         /\ IF ~params.datadir.some /\ ~appdir.some
            THEN /\ TPanic("datadir")
                 /\ UNCHANGED config
            ELSE /\ config' = Some([datadir |-> IF params.datadir.some
                                                THEN params.datadir.val
                                                ELSE join_default(appdir.val),
                                    rpc_address |-> unwrap_or(params.rpc_address, S_localhost),
                                    rpc_port |-> unwrap_or(params.rpc_port, DefaultRpcPort),
                                    net |-> unwrap_or(params.net, S_testnet)])
                 /\ tpc' = "env"
                 /\ UNCHANGED panicAt
    /\ UNCHANGED <<attrsSeen, params, fnArgs, args, envOut, envLocal, input_data,
                   output, kernelFile, returned>>
    /\ UNCHANGED notT

\* lines 189-190: GFAAS_OUT_DIR (required) and GFAAS_LOCAL
ReadEnv ==
    /\ tpc = "env"
    /\ \E eo \in EnvStates, el \in EnvStates :
         /\ envOut' = eo
         /\ envLocal' = el
         /\ IF env_var(eo)
            THEN tpc' = "input_data" /\ UNCHANGED panicAt
            ELSE TPanic("out_dir")
    /\ UNCHANGED <<attrsSeen, params, fnArgs, args, subtasks, config, input_data,
                   output, kernelFile, returned>>
    /\ UNCHANGED notT

\* a first-parameter access that tolerates an empty list (args_pats.first())
FirstParamUnchecked ==
    /\ tpc = "input_data"
    /\ input_data' = IF Len(args) = 0 THEN Some("none")
                                      ELSE Some(input_data_of(args_pats_of(args)))
    /\ tpc' = "select"
    /\ UNCHANGED <<attrsSeen, params, fnArgs, args, subtasks, config, envOut, envLocal,
                   output, kernelFile, returned, panicAt>>
    /\ UNCHANGED notT

\* line 191: args_pats[0], an index out of bounds for an empty list
FirstParam ==
    /\ tpc = "input_data"
    /\ IF Len(args) = 0
       THEN /\ TPanic("input_data")
            /\ UNCHANGED input_data
       ELSE /\ input_data' = Some(input_data_of(args_pats_of(args)))
            /\ tpc' = "select"
            /\ UNCHANGED panicAt
    /\ UNCHANGED <<attrsSeen, params, fnArgs, args, subtasks, config, envOut, envLocal,
                   output, kernelFile, returned>>
    /\ UNCHANGED notT

\* lines 192-284: one of the two bodies
SelectStrategy ==
    /\ tpc = "select"
    /\ output' = IF is_local(envLocal)
                 THEN LocalBody(args_pats_of(args), input_data.val)
                 ELSE DistributedBody(args_pats_of(args), subtasks, config.val)
    /\ tpc' = "kernel"
    /\ UNCHANGED <<attrsSeen, params, fnArgs, args, subtasks, config, envOut, envLocal,
                   input_data, kernelFile, returned, panicAt>>
    /\ UNCHANGED notT

\* lines 287-331: the kernel source; File::create truncates, either call may fail
EmitKernel ==
    /\ tpc = "kernel"
    /\ \E io \in {"create_fails", "write_fails", "ok"} :
         CASE io = "create_fails" -> TPanic("create") /\ UNCHANGED kernelFile
           [] io = "write_fails" -> TPanic("write") /\ kernelFile' = Truncated
           [] OTHER -> /\ kernelFile' = Written(kernel_of(Len(args)))
                       /\ tpc' = "return"
                       /\ UNCHANGED panicAt
    /\ UNCHANGED <<attrsSeen, params, fnArgs, args, subtasks, config, envOut, envLocal,
                   input_data, output, returned>>
    /\ UNCHANGED notT

\* line 333
Return ==
    /\ tpc = "return"
    /\ returned' = output
    /\ tpc' = "done"
    /\ UNCHANGED <<attrsSeen, params, fnArgs, args, subtasks, config, envOut, envLocal,
                   input_data, output, kernelFile, panicAt>>
    /\ UNCHANGED notT

TIdle ==
    /\ tpc = "idle"
    /\ attrsSeen = <<>>
    /\ params = DefaultParams
    /\ fnArgs = <<>>
    /\ args = <<>>
    /\ subtasks = <<>>
    /\ config = None
    /\ envOut = "NotPresent"
    /\ envLocal = "NotPresent"
    /\ input_data = None
    /\ output = NoOutput
    /\ kernelFile = Untouched
    /\ returned = NoOutput
    /\ panicAt = "none"

\* -------------------------------------------------------------- SpecKernel
\* The emitted main() of lines 303-316, run on a command line.  The user's
\* function is represented by one that concatenates its arguments.
PathPool == {"x", "y", "z", "o", "nofile"}

NoFile == [exists |-> FALSE, bytes |-> <<>>]

FileOf(b) == [exists |-> TRUE, bytes |-> b]

InitialFiles ==
    [p \in PathPool \cup {"prog"} |->
        CASE p = "prog" -> FileOf(<<9>>)
          [] p = "x" -> FileOf(<<1>>)
          [] p = "y" -> FileOf(<<2>>)
          [] p = "z" -> FileOf(<<3>>)
          [] OTHER -> NoFile]

RECURSIVE Concat(_)
Concat(seqs) == IF Len(seqs) = 0 THEN <<>> ELSE Head(seqs) \o Concat(Tail(seqs))

KIdle ==
    /\ kpc = "idle"
    /\ kProgram = kernel_of(0)
    /\ kArgs = <<>>
    /\ kPopped = <<>>
    /\ kOut = None
    /\ kBufs = <<>>
    /\ kCall = None
    /\ kFiles = InitialFiles

KInit ==
    /\ kpc = "start"
    /\ kProgram \in {kernel_of(n) : n \in 1..MaxParams}
    /\ kArgs \in {<<"prog">> \o t : t \in SeqsUpTo(PathPool, MaxArgv)}
    /\ kPopped = <<>>
    /\ kOut = None
    /\ kBufs = <<>>
    /\ kCall = None
    /\ kFiles = InitialFiles

KPanic ==
    /\ kpc' = "panic"
    /\ UNCHANGED <<kProgram, kArgs, kPopped, kOut, kBufs, kCall, kFiles>>

\* Vec::pop
pop(v) == [rest |-> SubSeq(v, 1, Len(v) - 1), item |-> v[Len(v)]]

\* lines 308-309: let out = args.pop().unwrap()
KPopOut ==
    /\ kpc = "start"
    /\ IF Len(kArgs) = 0
       THEN KPanic
       ELSE /\ kArgs' = pop(kArgs).rest
            /\ kOut' = Some(pop(kArgs).item)
            /\ kPopped' = Append(kPopped, pop(kArgs).item)
            /\ kpc' = "inputs"
            /\ UNCHANGED <<kProgram, kBufs, kCall, kFiles>>
    /\ UNCHANGED notK

\* lines 292-295: the next input block pops a path and reads the file whole
KReadInput ==
    /\ kpc = "inputs"
    /\ Len(kBufs) < Len(kProgram.inputs)
    /\ IF Len(kArgs) = 0
       THEN KPanic
       ELSE IF ~kFiles[pop(kArgs).item].exists
       THEN /\ kpc' = "panic"
            /\ kArgs' = pop(kArgs).rest
            /\ kPopped' = Append(kPopped, pop(kArgs).item)
            /\ UNCHANGED <<kProgram, kOut, kBufs, kCall, kFiles>>
       ELSE /\ kArgs' = pop(kArgs).rest
            /\ kPopped' = Append(kPopped, pop(kArgs).item)
            /\ kBufs' = Append(kBufs, [ident |-> kProgram.inputs[Len(kBufs) + 1],
                                      bytes |-> kFiles[pop(kArgs).item].bytes])
            /\ UNCHANGED <<kpc, kProgram, kOut, kCall, kFiles>>
    /\ UNCHANGED notK

\* the buffer bound to in{ident}
BufOf(ident) == (CHOOSE b \in {kBufs[i] : i \in 1..Len(kBufs)} : b.ident = ident).bytes

\* line 312: let res = f(&in0, &in1, ...)
KCallFn ==
    /\ kpc = "inputs"
    /\ Len(kBufs) = Len(kProgram.inputs)
    /\ kCall' = Some([i \in 1..Len(kProgram.input_args) |-> BufOf(kProgram.input_args[i])])
    /\ kpc' = "write"
    /\ UNCHANGED <<kProgram, kArgs, kPopped, kOut, kBufs, kFiles>>
    /\ UNCHANGED notK

\* lines 314-315: File::create(out) and write_all(&res); the create may fail
KWriteOut ==
    /\ kpc = "write"
    /\ \E io \in {"ok", "create_fails"} :
         IF io = "ok"
         THEN /\ kFiles' = [kFiles EXCEPT ![kOut.val] = FileOf(Concat(kCall.val))]
              /\ kpc' = "done"
              /\ UNCHANGED <<kProgram, kArgs, kPopped, kOut, kBufs, kCall>>
         ELSE KPanic
    /\ UNCHANGED notK

KernelNext ==
    \/ KPopOut
    \/ KReadInput
    \/ KCallFn
    \/ KWriteOut

\* --------------------------------------------------------- SpecDistributed
\* A call of the dispatcher emitted at lines 233-283.
TaskArgBytes == {<<>>, <<1>>, <<2, 3>>}

OkStream(b) == [data |-> b, fails |-> FALSE, delivered |-> Len(b)]

\* a stream whose read fails after n bytes
BadStream(b, n) == [data |-> b, fails |-> TRUE, delivered |-> n]

StreamPool == {OkStream(<<1, 2, 3>>), OkStream(<<4, 5>>), OkStream(<<6>>),
               BadStream(<<7, 8>>, 1)}

RECURSIVE Results(_, _)
\* the ComputedTasks of at most n subtasks holding at most t streams in all
Results(n, t) ==
    IF n = 0 THEN {<<>>}
    ELSE {<<>>} \cup UNION {{<<st>> \o r : r \in Results(n - 1, t - Len(st))} :
                              st \in SeqsUpTo(StreamPool, t)}

DefaultConfig == [datadir |-> join_default(S_appdir), rpc_address |-> S_localhost,
                  rpc_port |-> DefaultRpcPort, net |-> S_testnet]

NoCall == [p \in {} |-> <<>>]

DIdle ==
    /\ dpc = "idle"
    /\ dFn = NoOutput
    /\ dCall = NoCall
    /\ dTask = <<>>
    /\ dComputed = <<>>
    /\ dSub = 0
    /\ dStr = 0
    /\ dOut = <<>>
    /\ dRet = None

PatsOf(k) == SubSeq(ParamNames, 1, k)

Range(f) == {f[i] : i \in DOMAIN f}

DInit ==
    /\ dpc = "start"
    /\ \E k \in 1..MaxParams :
         /\ dFn = DistributedBody(PatsOf(k), subtasks_of(PatsOf(k)), DefaultConfig)
         /\ dCall \in [Range(PatsOf(k)) -> TaskArgBytes]
    /\ dTask = <<>>
    /\ dComputed = <<>>
    /\ dSub = 0
    /\ dStr = 0
    /\ dOut = <<>>
    /\ dRet = None

DPanic ==
    /\ dpc' = "panic"
    /\ UNCHANGED <<dFn, dCall, dTask, dComputed, dSub, dStr, dOut, dRet>>

\* lines 248-258: the workspace, the binary, and the builder chain
\* TaskBuilder::new(..).push_subtask_data(Vec::from(#pat))....build()
DBuildTask ==
    /\ dpc = "start"
    /\ \E io \in {"ok", "fails"} :
         IF io = "ok"
         THEN /\ dTask' = [i \in 1..Len(dFn.subtasks) |-> dCall[dFn.subtasks[i]]]
              /\ dpc' = "compute"
              /\ UNCHANGED <<dFn, dCall, dComputed, dSub, dStr, dOut, dRet>>
         ELSE DPanic
    /\ UNCHANGED notD

\* lines 259-273: golem::compute takes the task (it is moved, and the
\* arguments are not used again) and answers with a ComputedTask or an error
DCompute ==
    /\ dpc = "compute"
    /\ \/ /\ \E r \in Results(MaxSubtasks, MaxStreams) : dComputed' = r
          /\ dTask' = <<>>
          /\ dCall' = NoCall
          /\ dSub' = 1
          /\ dStr' = 0
          /\ dpc' = "read"
          /\ UNCHANGED <<dFn, dOut, dRet>>
       \/ DPanic
    /\ UNCHANGED notD

\* io::Read::read_to_end: the bytes read are appended to the buffer, also
\* those read before an error
read_to_end_overwrite(buf, stream) ==
    [ok |-> ~stream.fails, buf |-> SubSeq(stream.data, 1, stream.delivered)]

read_to_end(buf, stream) ==
    [ok |-> ~stream.fails, buf |-> buf \o SubSeq(stream.data, 1, stream.delivered)]

\* lines 277-279: the next stream of the current subtask
DReadStream ==
    /\ dpc = "read"
    /\ dSub <= Len(dComputed)
    /\ dStr < Len(dComputed[dSub])
    /\ LET r == read_to_end(dOut, dComputed[dSub][dStr + 1])
       IN  /\ dOut' = r.buf
           /\ IF r.ok
              THEN dStr' = dStr + 1 /\ UNCHANGED dpc
              ELSE dpc' = "panic" /\ UNCHANGED dStr
    /\ UNCHANGED <<dFn, dCall, dTask, dComputed, dSub, dRet>>
    /\ UNCHANGED notD

\* line 276: the next subtask
DNextSubtask ==
    /\ dpc = "read"
    /\ dSub <= Len(dComputed)
    /\ dStr = Len(dComputed[dSub])
    /\ dSub' = dSub + 1
    /\ dStr' = 0
    /\ UNCHANGED <<dpc, dFn, dCall, dTask, dComputed, dOut, dRet>>
    /\ UNCHANGED notD

\* line 281
DReturn ==
    /\ dpc = "read"
    /\ dSub > Len(dComputed)
    /\ dRet' = Some(dOut)
    /\ dpc' = "done"
    /\ UNCHANGED <<dFn, dCall, dTask, dComputed, dSub, dStr, dOut>>
    /\ UNCHANGED notD

DistributedNext ==
    \/ DBuildTask
    \/ DCompute
    \/ DReadStream
    \/ DNextSubtask
    \/ DReturn

\* --------------------------------------------------------------- SpecLocal
\* Concurrent calls of the dispatchers emitted at lines 193-231 for two
\* transformed functions of one program: f(a, b) and g(a, b, c).
LocalProgram ==
    [name \in {"f", "g"} |->
        LET pats == IF name = "f" THEN PatsOf(2) ELSE PatsOf(3)
        IN  LocalBody(pats, input_data_of(pats))]

Calls == 1..MaxCalls

ArgBytes == {<<1>>, <<2, 3>>}

\* what the kernel may have left in out/out
SandboxOutputs == {<<4, 2>>}

NoCallRec == [pc |-> "idle", fn |-> "f", call |-> NoCall, data |-> <<>>,
              engine |-> None, handed |-> None, ret |-> None]

LIdle ==
    /\ lCalls = [c \in {} |-> NoCallRec]
    /\ lEngine = [name \in {} |-> None]
    /\ lInits = 0

\* every generated function holds its own lazy_static ENGINE
LInit ==
    /\ lCalls = [c \in Calls |-> NoCallRec]
    /\ lEngine = [name \in DOMAIN LocalProgram |-> [state |-> "uninit", handle |-> 0]]
    /\ lInits = 0

\* line 208 at the call of one of the functions: let data = Vec::from(#input_data)
LCall(c) ==
    /\ lCalls[c].pc = "idle"
    /\ \E name \in DOMAIN LocalProgram :
         \E call \in [Range(LocalProgram[name].fn_args) -> ArgBytes] :
            lCalls' = [lCalls EXCEPT ![c] =
                          [@ EXCEPT !.pc = "engine", !.fn = name, !.call = call,
                                    !.data = call[LocalProgram[name].input_data]]]
    /\ UNCHANGED <<lEngine, lInits>>
    /\ UNCHANGED notL

\* line 209, first dereference of ENGINE: this call runs JSEngine::init(),
\* whose handle is told apart by the ordinal of the init that made it
LInitBegin(c) ==
    /\ lCalls[c].pc = "engine"
    /\ lEngine[lCalls[c].fn].state = "uninit"
    /\ lEngine' = [lEngine EXCEPT ![lCalls[c].fn] =
                       [state |-> "running", handle |-> lInits + 1]]
    /\ lInits' = lInits + 1
    /\ lCalls' = [lCalls EXCEPT ![c].pc = "init"]
    /\ UNCHANGED notL

\* line 205: JSEngine::init().unwrap() ends; a failure poisons the Once
LInitEnd(c) ==
    /\ lCalls[c].pc = "init"
    /\ \E ok \in BOOLEAN :
         IF ok
         THEN /\ lEngine' = [lEngine EXCEPT ![lCalls[c].fn].state = "ready"]
              /\ lCalls' = [lCalls EXCEPT ![c].pc = "engine"]
         ELSE /\ lEngine' = [lEngine EXCEPT ![lCalls[c].fn].state = "poisoned"]
              /\ lCalls' = [lCalls EXCEPT ![c].pc = "panic"]
    /\ UNCHANGED lInits
    /\ UNCHANGED notL

\* line 209 once ENGINE is initialized (a call finding it being initialized
\* waits): let engine = Arc::clone(&ENGINE); a poisoned Once panics
LEngineGet(c) ==
    /\ lCalls[c].pc = "engine"
    /\ lEngine[lCalls[c].fn].state \in {"ready", "poisoned"}
    /\ IF lEngine[lCalls[c].fn].state = "ready"
       THEN lCalls' = [lCalls EXCEPT ![c].pc = "spawn",
                                     ![c].engine = Some(lEngine[lCalls[c].fn].handle)]
       ELSE lCalls' = [lCalls EXCEPT ![c].pc = "panic"]
    /\ UNCHANGED <<lEngine, lInits>>
    /\ UNCHANGED notL

\* what the closure hands to the sandbox: exec args, the input directory,
\* the two binaries
Handed(name, engine, data) ==
    [engine |-> engine, exec_args |-> <<"in", "out">>, input_dir |-> [n \in {"in"} |-> data],
     js |-> <<name, "js">>, wasm |-> <<name, "wasm">>]

\* lines 211-229: the blocking closure: workspace, in/in written, the
\* sandbox chain, out/out read; any step may fail
LRunSandbox(c) ==
    /\ lCalls[c].pc = "spawn"
    /\ \E outcome \in {"fs_fails", "sandbox_fails", "ok"}, out \in SandboxOutputs :
         CASE outcome = "fs_fails" -> lCalls' = [lCalls EXCEPT ![c].pc = "panic"]
           [] outcome = "sandbox_fails" ->
                lCalls' = [lCalls EXCEPT ![c].pc = "panic",
                              ![c].handed = Some(Handed(lCalls[c].fn, lCalls[c].engine.val,
                                                        lCalls[c].data))]
           [] OTHER ->
                lCalls' = [lCalls EXCEPT ![c].pc = "done",
                              ![c].handed = Some(Handed(lCalls[c].fn, lCalls[c].engine.val,
                                                        lCalls[c].data)),
                              ![c].ret = Some(out)]
    /\ UNCHANGED <<lEngine, lInits>>
    /\ UNCHANGED notL

LocalNext ==
    \/ \E c \in Calls : LCall(c)
    \/ \E c \in Calls : LInitBegin(c)
    \/ \E c \in Calls : LInitEnd(c)
    \/ \E c \in Calls : LEngineGet(c)
    \/ \E c \in Calls : LRunSandbox(c)

\* ---------------------------------------------------------- specifications
ValidateInit == VInit /\ TIdle /\ KIdle /\ DIdle /\ LIdle

ValidateNext == Validate

SpecValidate == ValidateInit /\ [][ValidateNext]_vars

TNext ==
    \/ ParseAttr
    \/ ValidateArgs
    \/ ResolveDefaults
    \/ ReadEnv
    \/ FirstParam
    \/ SelectStrategy
    \/ EmitKernel
    \/ Return

TransformInit == TInit /\ VIdle /\ KIdle /\ DIdle /\ LIdle

SpecTransform == TransformInit /\ [][TNext]_vars

KernelInit == KInit /\ VIdle /\ TIdle /\ DIdle /\ LIdle

SpecKernel == KernelInit /\ [][KernelNext]_vars

DistributedInit == DInit /\ VIdle /\ TIdle /\ KIdle /\ LIdle

SpecDistributed == DistributedInit /\ [][DistributedNext]_vars

LocalInit == LInit /\ VIdle /\ TIdle /\ KIdle /\ DIdle

SpecLocal == LocalInit /\ [][LocalNext]_vars

\* ================================================================== claims
\* The shape the validator is documented to accept: array, slice and
\* reference wrappers only, around the bare path u8.
ByteShaped(ty) ==
    /\ \A i \in 1..(Len(ty) - 1) : ty[i].kind \in {"Array", "Slice", "Reference"}
    /\ ty[Len(ty)].kind = "Path"
    /\ ~ty[Len(ty)].leading_colon
    /\ ty[Len(ty)].segments = <<[ident |-> "u8", arguments |-> FALSE]>>

\* C10: the validator accepts a parameter type exactly when stripping its
\* array, slice and reference wrappers leaves the bare path u8; every other
\* type is rejected (the recursion is evaluated to its end on every type).
C10_AcceptsIffByteShaped ==
    vRes.done => (vRes.ok <=> ByteShaped(vArg.ty))

C10_Witness ==
    /\ vRes.done
    /\ vRes.ok
    /\ Len(vArg.ty) >= 3
    /\ \E i \in 1..Len(vArg.ty) : vArg.ty[i].kind = "Reference"

\* ---- the attribute list, read independently of parse_attr
KnownKeys == {"datadir", "rpc_address", "rpc_port", "net"}

\* the decimal texts of the attribute pool and the numbers they denote
NumberTexts == {[text |-> <<56, 48, 56, 48>>, value |-> 8080],
                [text |-> <<43, 56, 48>>, value |-> 80],
                [text |-> <<54, 53, 53, 51, 54>>, value |-> 65536]}

\* the spellings of the two networks in the attribute pool
NetSpellings == {[text |-> S_testnet, net |-> S_testnet],
                 [text |-> S_mainnet, net |-> S_mainnet],
                 [text |-> S_Mainnet, net |-> S_mainnet],
                 [text |-> S_TESTNET, net |-> S_testnet]}

AttrRejected(a) ==
    \/ a.ident \notin KnownKeys
    \/ a.ident \in {"datadir", "rpc_address"} /\ a.value.kind # "Str"
    \/ /\ a.ident = "rpc_port"
       /\ \/ a.value.kind \notin {"Str", "Int"}
          \/ a.value.kind = "Int" /\ a.value.int \notin 0..65535
          \/ /\ a.value.kind = "Str"
             /\ ~\E t \in NumberTexts : t.text = a.value.str /\ t.value \in 0..65535
    \/ /\ a.ident = "net"
       /\ \/ a.value.kind # "Str"
          \/ ~\E t \in NetSpellings : t.text = a.value.str

PastEnv == {"input_data", "select", "kernel", "return", "done"}

\* C7: an unknown key, a mistyped value, a net other than testnet/mainnet, a
\* port outside 0..65535, a parameter that is not byte-shaped and a missing
\* output-directory variable each abort the transformation, with no
\* dispatcher returned and the kernel file untouched.
C7_TransformErrorsAreFatal ==
    /\ (\E i \in 1..Len(attrsSeen) : AttrRejected(attrsSeen[i]))
           => tpc = "panic" /\ panicAt = "attrs"
    /\ (\E i \in 1..Len(fnArgs) : fnArgs[i].kind = "Typed" /\ ~ByteShaped(fnArgs[i].ty))
           => tpc = "panic" /\ panicAt = "validate"
    /\ tpc \in PastEnv => envOut # "NotPresent"
    /\ panicAt \in {"attrs", "validate", "out_dir"}
           => tpc = "panic" /\ output = NoOutput /\ returned = NoOutput
              /\ kernelFile = Untouched

C7_Witness ==
    /\ tpc = "panic"
    /\ panicAt = "attrs"
    /\ Len(attrsSeen) = 2
    /\ attrsSeen[2] = Attr("rpc_port", LitInt(U16Max + 1))
    /\ returned = NoOutput
    /\ kernelFile = Untouched

\* ---- last occurrence wins
Occurrences(key) == {i \in 1..Len(attrsSeen) : attrsSeen[i].ident = key}

LastIndex(S) == CHOOSE i \in S : \A j \in S : j <= i

\* what an accepted literal means for its key
Meaning(key, lit) ==
    CASE key = "rpc_port" /\ lit.kind = "Int" -> lit.int
      [] key = "rpc_port" /\ lit.kind = "Str" ->
            (CHOOSE t \in NumberTexts : t.text = lit.str).value
      [] key = "net" -> (CHOOSE t \in NetSpellings : t.text = lit.str).net
      [] OTHER -> lit.str

\* the documented defaults; the data directory is <app data dir>/default
DocumentedDefault(key) ==
    CASE key = "datadir" -> <<47, 103, 111, 108, 101, 109, 47, 100, 101, 102, 97, 117, 108, 116>>
      [] key = "rpc_address" -> <<49, 50, 55, 46, 48, 46, 48, 46, 49>>
      [] key = "rpc_port" -> 61000
      [] OTHER -> <<116, 101, 115, 116, 110, 101, 116>>

\* C9: a key supplied more than once resolves to its last occurrence, each
\* assignment overwriting the one before; a key never supplied resolves to
\* its documented default.
C9_LastOccurrenceWins ==
    \A key \in KnownKeys :
        /\ tpc # "panic" =>
              IF Occurrences(key) = {}
              THEN params[key] = None
              ELSE params[key] =
                      Some(Meaning(key, attrsSeen[LastIndex(Occurrences(key))].value))
        /\ config.some =>
              IF Occurrences(key) = {}
              THEN config.val[key] = DocumentedDefault(key)
              ELSE config.val[key] =
                      Meaning(key, attrsSeen[LastIndex(Occurrences(key))].value)

C9_Witness ==
    /\ config.some
    /\ attrsSeen = <<Attr("net", LitStr(S_TESTNET)), Attr("net", LitStr(S_Mainnet))>>
    /\ config.val.net = S_mainnet
    /\ config.val.rpc_port = 61000

\* ---- the empty parameter list
ZeroParamsValidated == fnArgs = <<>> /\ tpc # "attrs" /\ panicAt # "attrs"

\* C3 as claimed: an empty parameter list fails in the validation step,
\* before the defaults and the build environment are read.
C3_RejectedAtValidation ==
    ZeroParamsValidated =>
        /\ tpc = "panic"
        /\ panicAt = "validate"
        /\ config = None

\* C3 as the code has it: validation accepts the empty list; the
\* transformation still never gets as far as a dispatcher or the kernel
\* file, and it ends by the failed data-directory lookup, the missing
\* output directory or, with the defaults resolved and the environment
\* read, the access to the first parameter.
C3_RejectedBeforeGeneration ==
    ZeroParamsValidated =>
        /\ panicAt # "validate"
        /\ tpc \in {"resolve", "env", "input_data", "panic"}
        /\ tpc # "panic" => ENABLED TNext
        /\ tpc = "panic" => panicAt \in {"datadir", "out_dir", "input_data"}
        /\ panicAt = "input_data" => config.some /\ env_var(envOut)
        /\ output = NoOutput
        /\ returned = NoOutput
        /\ kernelFile = Untouched

C3_Witness ==
    /\ ZeroParamsValidated
    /\ tpc = "panic"
    /\ panicAt = "input_data"
    /\ config.some

\* C5 as claimed: the toggle present with any value, empty or not valid
\* Unicode included, gives the local-sandbox dispatcher; absent, and only
\* then, the distributed one.
C5_PresentToggleSelectsLocal ==
    returned # NoOutput =>
        /\ envLocal # "NotPresent" => returned.strategy = "local"
        /\ returned.strategy = "distributed" <=> envLocal = "NotPresent"

\* ---- the kernel's command line
\* C1 as claimed, for a command line of the program name and N+1 arguments:
\* the kernel pops N+1 arguments, the output path first, and
\* the first declared parameter is read from the last-popped input path,
\* the last declared parameter from the first-popped one.
C1_FirstParamFromLastPop ==
    kpc = "done" /\ kArgs = <<"prog">> =>
        LET n == Len(kProgram.inputs)
        IN  /\ Len(kPopped) = n + 1
            /\ kOut = Some(kPopped[1])
            /\ Len(kCall.val) = n
            /\ kCall.val[1] = InitialFiles[kPopped[n + 1]].bytes
            /\ kCall.val[n] = InitialFiles[kPopped[2]].bytes

\* ---- the distributed dispatcher
\* C2: the Task holds one subtask per declared parameter, the i-th with the
\* bytes of the i-th parameter as passed.
C2_TaskHoldsParamsInOrder ==
    dpc = "compute" =>
        /\ Len(dTask) = Len(dFn.fn_args)
        /\ \A i \in 1..Len(dFn.fn_args) : dTask[i] = dCall[dFn.fn_args[i]]

C2_Witness ==
    /\ dpc = "compute"
    /\ dFn.fn_args = <<"a", "b", "c">>
    /\ dTask = <<<<2, 3>>, <<>>, <<1>>>>

\* all bytes of a ComputedTask, subtask by subtask and stream by stream
StreamBytes(st) == Concat([k \in 1..Len(st) |-> st[k].data])

ResultBytes(r) == Concat([i \in 1..Len(r) |-> StreamBytes(r[i])])

SomeStreamFails(r) == \E i \in 1..Len(r) : \E k \in 1..Len(r[i]) : r[i][k].fails

\* C8: the dispatcher returns the bytes of every stream of every subtask, in
\* subtask order and then stream order, each stream whole; a failing read
\* aborts the call and nothing is returned.
C8_ReturnIsConcatenation ==
    /\ dpc = "done" => dRet = Some(ResultBytes(dComputed))
    /\ dpc # "done" => dRet = None
    /\ SomeStreamFails(dComputed) => dpc # "done"
    /\ dpc = "read" /\ dSub <= Len(dComputed) =>
          dOut = ResultBytes(SubSeq(dComputed, 1, dSub - 1))
                    \o StreamBytes(SubSeq(dComputed[dSub], 1, dStr))

C8_Witness ==
    /\ dpc = "done"
    /\ dComputed = << <<OkStream(<<1, 2, 3>>)>>, <<OkStream(<<4, 5>>), OkStream(<<6>>)>> >>
    /\ dRet = Some(<<1, 2, 3, 4, 5, 6>>)

\* ---- the local dispatcher
HandedCalls == {c \in DOMAIN lCalls : lCalls[c].handed.some}

\* C6: with two or more parameters the input directory holds one file, the
\* first parameter's bytes; calls that differ only in later parameters hand
\* the sandbox the same things.
C6_OnlyFirstParamReachesSandbox ==
    /\ \A c \in HandedCalls :
          LET h == lCalls[c].handed.val
              declared == LocalProgram[lCalls[c].fn].fn_args
          IN  /\ Len(declared) >= 2
              /\ DOMAIN h.input_dir = {"in"}
              /\ h.input_dir["in"] = lCalls[c].call[declared[1]]
    /\ \A c, d \in HandedCalls :
          /\ lCalls[c].fn = lCalls[d].fn
          /\ lCalls[c].call["a"] = lCalls[d].call["a"]
          => lCalls[c].handed = lCalls[d].handed

C6_Witness ==
    \E c, d \in HandedCalls :
        /\ lCalls[c].fn = "g" /\ lCalls[d].fn = "g"
        /\ lCalls[c].call["a"] = lCalls[d].call["a"]
        /\ lCalls[c].call["b"] # lCalls[d].call["b"]
        /\ lCalls[c].call["c"] # lCalls[d].call["c"]
        /\ lCalls[c].call["b"] # lCalls[c].call["a"]
        /\ lCalls[c].pc = "done" /\ lCalls[d].pc = "done"

\* C4 as claimed: JSEngine::init runs at most once in the process, whichever
\* functions are called, and every call holds the one handle.
C4_EngineInitAtMostOnce ==
    /\ lInits <= 1
    /\ \A c, d \in DOMAIN lCalls :
          lCalls[c].engine.some /\ lCalls[d].engine.some
              => lCalls[c].engine = lCalls[d].engine

====
